---- MODULE Spec2Model ----
(***************************************************************************)
(* State machine of taskgroup.taskgroups.TaskGroup: the scope's flags,     *)
(* live set and error list, the owner task's cancellation bookkeeping, the *)
(* children, and the position of the owner inside _cmgr_factory.           *)
(***************************************************************************)
EXTENDS Integers, Sequences, FiniteSets, TLC

\* ---------------------------------------------------------------- bounds
MaxChildren == 2
MaxExtCancels == 2

\* ------------------------------------------------------------- constants
None == "None"
Cancelled == "CancelledError"
RuntimeError == "RuntimeError"
OrdinaryErrors == {"E1", "E2"}
SevereErrors == {"SystemExit"}
ChildErrors == OrdinaryErrors \cup SevereErrors
BodyErrors == {"X"}
Children == 1..MaxChildren

VARIABLES
    entered,                  \* self._entered
    exiting,                  \* self._exiting
    aborting,                 \* self._aborting
    parent_task,              \* self._parent_task: None or "owner"
    parent_cancel_requested,  \* self._parent_cancel_requested
    tasks,                    \* self._tasks
    errors,                   \* self._errors (the list)
    errors_released,          \* TRUE when self._errors is None
    base_error,               \* self._base_error
    on_completed_fut,         \* self._on_completed_fut: None, "pending", "done", "cancelled"
    et,                       \* local et of _cmgr_factory: None, Cancelled or a body error
    propagate_cancellation_error, \* local of _cmgr_factory: None or Cancelled
    pc,                       \* position of the owner: "init", "noparent", "body", "wait", "closed"
    outcome,                  \* what __aexit__ delivered to the owner
    num_cancels,              \* owner task: outstanding cancellation requests
    must_cancel,              \* owner task: CancelledError due at its next resumption
    parent_done,              \* owner task: done()
    child,                    \* child tasks: state, result, cancel() requests received
    reported,                 \* loop.call_exception_handler calls, in order
    uncancel_calls,           \* number of owner.uncancel() calls made by the scope
    owner_cancel_calls,       \* number of owner.cancel() calls made by the scope
    ext_cancels,              \* number of owner.cancel() calls made from outside
    drain_cancels,            \* those of ext_cancels made while the owner waits in close
    last_call                 \* result of the public call made by the last step, if any

vars == <<entered, exiting, aborting, parent_task, parent_cancel_requested, tasks,
          errors, errors_released, base_error, on_completed_fut, et,
          propagate_cancellation_error, pc, outcome, num_cancels, must_cancel,
          parent_done, child, reported, uncancel_calls, owner_cancel_calls,
          ext_cancels, drain_cancels, last_call>>

\* --------------------------------------------------------------- helpers
NoCall == [op |-> "none", res |-> "none"]
Call(o, r) == [op |-> o, res |-> r]

NoOutcome == [kind |-> "none", err |-> None, causes |-> <<>>]
Returned == [kind |-> "normal", err |-> None, causes |-> <<>>]
Raised(e) ==
    IF e = Cancelled THEN [kind |-> "cancelled", err |-> Cancelled, causes |-> <<>>]
    ELSE [kind |-> "error", err |-> e, causes |-> <<>>]
Group(es) == [kind |-> "group", err |-> None, causes |-> es]

\* TaskGroup._is_base_error
IsBaseError(exc) == exc \in SevereErrors

\* _abort that only sets the flag and cancels nothing (variant used to test C14)
AbortCancelsNone(ts, ch) == ch
\* TaskGroup._abort: cancel() on every member of the live set that is not done
Abort(ts, ch) ==
    [c \in Children |->
        IF c \in ts /\ ch[c].st = "running"
        THEN [ch[c] EXCEPT !.cancels = @ + 1]
        ELSE ch[c]]

\* owner.cancel(): a pending future the owner awaits is cancelled, otherwise
\* the CancelledError is due at the owner's next resumption
CancelledFut(fut) == IF pc = "wait" /\ fut = "pending" THEN "cancelled" ELSE fut
CancelledMust(fut) == IF pc = "wait" /\ fut = "pending" THEN must_cancel ELSE TRUE

\* owner.uncancel(): the remaining count
Uncancel(n) == IF n > 0 THEN n - 1 ELSE 0

\* create_task without the check of line 172 (variant used to test C8)
CreateTaskRejectsNoAbortCheck ==
    \/ ~entered
    \/ exiting /\ tasks = {}
\* create_task, lines 168-173: the three rejections
CreateTaskRejects ==
    \/ ~entered
    \/ exiting /\ tasks = {}
    \/ aborting

\* line 239 without its guard (variant used to test C15)
ShouldCancelParentAlways == TRUE
\* _on_task_done, line 239: the condition under which the scope aborts and
\* cancels its owner
ShouldCancelParent == ~aborting /\ ~parent_cancel_requested

\* lines 208-210 left out: the completion future is never resolved (variant
\* used to test C18)
SetResultNever(fut, ts) == fut
\* _on_task_done, lines 208-210: the completion future after the live set
\* became ts
SetResult(fut, ts) ==
    IF fut # None /\ ts = {} /\ fut = "pending" THEN "done" ELSE fut

\* line 226 never true (variant used to test C12)
OrphanedNever == FALSE
\* _on_task_done, line 226: self._parent_task.done()
Orphaned == parent_done

\* --------------------------------------------------------------- Init
Init ==
    /\ entered = FALSE
    /\ exiting = FALSE
    /\ aborting = FALSE
    /\ parent_task = None
    /\ parent_cancel_requested = FALSE
    /\ tasks = {}
    /\ errors = <<>>
    /\ errors_released = FALSE
    /\ base_error = None
    /\ on_completed_fut = None
    /\ et = None
    /\ propagate_cancellation_error = None
    /\ pc = "init"
    /\ outcome = NoOutcome
    /\ num_cancels = 0
    /\ must_cancel = FALSE
    /\ parent_done = FALSE
    /\ child = [c \in Children |-> [st |-> "unspawned", res |-> None, cancels |-> 0]]
    /\ reported = <<>>
    /\ uncancel_calls = 0
    /\ owner_cancel_calls = 0
    /\ ext_cancels = 0
    /\ drain_cancels = 0
    /\ last_call = NoCall

\* ------------------------------------------------- the scope's own pieces
\* _cmgr_factory, lines 128-153: the outcome once the wait loop has ended.
\* etv is the local et, prop the local propagate_cancellation_error.
FoldBody(etv) ==
    IF etv # None /\ etv # Cancelled THEN Append(errors, etv) ELSE errors

\* lines 130-153 with the error list looked at before the severe marker
\* (variant used to test C17)
ComputeOutcomeGroupFirst(etv, prop) ==
    IF FoldBody(etv) # <<>> THEN Group(FoldBody(etv))
    ELSE IF base_error # None THEN Raised(base_error)
    ELSE IF prop # None THEN Raised(Cancelled)
    ELSE Returned

ComputeOutcome(etv, prop) ==
    IF base_error # None THEN Raised(base_error)
    ELSE IF prop # None /\ errors = <<>> THEN Raised(Cancelled)
    ELSE IF FoldBody(etv) # <<>> THEN Group(FoldBody(etv))
    ELSE Returned

\* the error list after the outcome: appended to at line 143, dropped at line 150
ErrorsAfterOutcome(etv, prop) ==
    IF base_error # None \/ (prop # None /\ errors = <<>>) THEN errors
    ELSE IF FoldBody(etv) # <<>> THEN <<>>
    ELSE FoldBody(etv)

ReleasedAfterOutcome(etv, prop) ==
    IF base_error # None \/ (prop # None /\ errors = <<>>) THEN errors_released
    ELSE FoldBody(etv) # <<>>

\* _cmgr_factory, lines 108-112: the owner suspends on a fresh future; a
\* CancelledError already due cancels that future at once
Suspend(prop, must) ==
    /\ on_completed_fut' = IF must THEN "cancelled" ELSE "pending"
    /\ must_cancel' = FALSE
    /\ pc' = "wait"
    /\ propagate_cancellation_error' = prop
    /\ UNCHANGED <<outcome, errors, errors_released>>

\* _cmgr_factory, lines 128-153: the loop has ended, the outcome is delivered
Deliver(etv, prop, must) ==
    /\ on_completed_fut' = None
    /\ must_cancel' = must
    /\ pc' = "closed"
    /\ propagate_cancellation_error' = prop
    /\ outcome' = ComputeOutcome(etv, prop)
    /\ errors' = ErrorsAfterOutcome(etv, prop)
    /\ errors_released' = ReleasedAfterOutcome(etv, prop)

\* line 107 with an `if` in place of the `while`: the owner waits once only
\* (variant used to test C10)
WaitOnce(etv, prop, must) ==
    IF tasks # {} /\ pc # "wait" THEN Suspend(prop, must) ELSE Deliver(etv, prop, must)

\* _cmgr_factory, line 107: the head of the while loop
WaitLoop(etv, prop, must) ==
    IF tasks # {} THEN Suspend(prop, must) ELSE Deliver(etv, prop, must)

\* _on_task_done(task) for child c with result res; ch is the child map with
\* c's own state already updated by the caller.
OnTaskDone(c, res, ch) ==
    LET ts == tasks \ {c}
        fut1 == SetResult(on_completed_fut, ts)
        failed == res \notin {"ok", Cancelled}
        recorded == failed /\ ~errors_released
        hasParent == recorded /\ parent_task # None
        orphan == hasParent /\ Orphaned
        cancels == hasParent /\ ~Orphaned /\ ShouldCancelParent
    IN  /\ tasks' = ts
        /\ errors' = IF recorded THEN Append(errors, res) ELSE errors
        /\ base_error' = IF recorded /\ IsBaseError(res) /\ base_error = None
                         THEN res ELSE base_error
        /\ reported' = IF orphan THEN Append(reported, res) ELSE reported
        /\ aborting' = (aborting \/ cancels)
        /\ parent_cancel_requested' = (parent_cancel_requested \/ cancels)
        /\ child' = IF cancels THEN Abort(ts, ch) ELSE ch
        /\ num_cancels' = IF cancels THEN num_cancels + 1 ELSE num_cancels
        /\ owner_cancel_calls' = IF cancels THEN owner_cancel_calls + 1 ELSE owner_cancel_calls
        /\ on_completed_fut' = IF cancels THEN CancelledFut(fut1) ELSE fut1
        /\ must_cancel' = IF cancels THEN CancelledMust(fut1) ELSE must_cancel

\* ------------------------------------------------------------- actions
\* __aenter__: _cmgr_factory up to its yield; cur is tasks.current_task()
Enter(cur) ==
    /\ pc = "init" \/ entered
    /\ IF entered
       THEN /\ last_call' = Call("enter", RuntimeError)
            /\ UNCHANGED <<entered, parent_task, pc>>
       ELSE /\ entered' = TRUE
            /\ parent_task' = cur
            /\ IF cur = None
               THEN pc' = "noparent" /\ last_call' = Call("enter", RuntimeError)
               ELSE pc' = "body" /\ last_call' = Call("enter", "ok")
    /\ UNCHANGED <<exiting, aborting, parent_cancel_requested, tasks, errors,
                   errors_released, base_error, on_completed_fut, et,
                   propagate_cancellation_error, outcome, num_cancels, must_cancel,
                   parent_done, child, reported, uncancel_calls, owner_cancel_calls,
                   ext_cancels, drain_cancels>>

\* create_task without lines 183-184: a child that is already done is put in
\* the live set like any other and its callback left to the loop (variant used
\* to test C11)
CreateTaskInsertsDone(c, eager) ==
    /\ child[c].st = "unspawned"
    /\ \A d \in Children : d < c => child[d].st # "unspawned"
    /\ IF CreateTaskRejects
       THEN /\ last_call' = Call("create_task", RuntimeError)
            /\ UNCHANGED <<tasks, child>>
       ELSE /\ last_call' = Call("create_task", "ok")
            /\ tasks' = tasks \cup {c}
            /\ child' = IF eager # None
                        THEN [child EXCEPT ![c] = [st |-> "done", res |-> eager, cancels |-> 0]]
                        ELSE [child EXCEPT ![c].st = "running"]
    /\ UNCHANGED <<errors, base_error, reported, aborting, parent_cancel_requested,
                   num_cancels, owner_cancel_calls, on_completed_fut, must_cancel,
                   entered, exiting, parent_task, errors_released, et,
                   propagate_cancellation_error, pc, outcome, parent_done,
                   uncancel_calls, ext_cancels, drain_cancels>>

\* create_task: the next child, which the factory returns still running
\* (eager = None) or already done with result eager
CreateTask(c, eager) ==
    /\ child[c].st = "unspawned"
    /\ \A d \in Children : d < c => child[d].st # "unspawned"
    /\ IF CreateTaskRejects
       THEN /\ last_call' = Call("create_task", RuntimeError)
            /\ UNCHANGED <<tasks, errors, base_error, reported, aborting,
                           parent_cancel_requested, child, num_cancels,
                           owner_cancel_calls, on_completed_fut, must_cancel>>
       ELSE /\ last_call' = Call("create_task", "ok")
            /\ IF eager # None
               THEN OnTaskDone(c, eager,
                        [child EXCEPT ![c] = [st |-> "notified", res |-> eager, cancels |-> 0]])
               ELSE /\ tasks' = tasks \cup {c}
                    /\ child' = [child EXCEPT ![c].st = "running"]
                    /\ UNCHANGED <<errors, base_error, reported, aborting,
                                   parent_cancel_requested, num_cancels,
                                   owner_cancel_calls, on_completed_fut, must_cancel>>
    /\ UNCHANGED <<entered, exiting, parent_task, errors_released, et,
                   propagate_cancellation_error, pc, outcome, parent_done,
                   uncancel_calls, ext_cancels, drain_cancels>>

\* a running child reaches a terminal state; its done callback is then due
ChildFinish(c, res) ==
    /\ child[c].st = "running"
    /\ res = Cancelled => child[c].cancels > 0
    /\ child' = [child EXCEPT ![c].st = "done", ![c].res = res]
    /\ last_call' = NoCall
    /\ UNCHANGED <<entered, exiting, aborting, parent_task, parent_cancel_requested,
                   tasks, errors, errors_released, base_error, on_completed_fut, et,
                   propagate_cancellation_error, pc, outcome, num_cancels, must_cancel,
                   parent_done, reported, uncancel_calls, owner_cancel_calls,
                   ext_cancels, drain_cancels>>

\* the loop runs the done callback of a finished child: _on_task_done
ChildCallback(c) ==
    /\ child[c].st = "done"
    /\ OnTaskDone(c, child[c].res, [child EXCEPT ![c].st = "notified"])
    /\ last_call' = NoCall
    /\ UNCHANGED <<entered, exiting, parent_task, errors_released, et,
                   propagate_cancellation_error, pc, outcome, parent_done,
                   uncancel_calls, ext_cancels, drain_cancels>>

\* the owner's body swallows a CancelledError raised at one of its awaits
BodyCatchCancel ==
    /\ pc = "body"
    /\ must_cancel
    /\ must_cancel' = FALSE
    /\ last_call' = NoCall
    /\ UNCHANGED <<entered, exiting, aborting, parent_task, parent_cancel_requested,
                   tasks, errors, errors_released, base_error, on_completed_fut, et,
                   propagate_cancellation_error, pc, outcome, num_cancels,
                   parent_done, child, reported, uncancel_calls, owner_cancel_calls,
                   ext_cancels, drain_cancels>>

\* __aexit__: the owner's body ends with origin (None: normally; Cancelled; or
\* an error) and _cmgr_factory resumes after its yield, up to its next
\* suspension or its end.  The finally block (lines 73-78) only records et,
\* exiting and propagate_cancellation_error: an exception of the body leaves it
\* again, so lines 80-153 run only when the body ended normally, and lines
\* 82-153 only when parent_cancel_requested is set.
BodyEnd(origin) ==
    /\ pc = "body"
    /\ origin = Cancelled => must_cancel
    /\ et' = origin
    /\ exiting' = TRUE
    /\ last_call' = NoCall
    /\ LET must == IF origin = Cancelled THEN FALSE ELSE must_cancel
           prop == IF origin = Cancelled THEN Cancelled ELSE None
       IN  IF origin # None
           THEN /\ pc' = "closed"
                /\ outcome' = Raised(origin)
                /\ propagate_cancellation_error' = prop
                /\ must_cancel' = must
                /\ UNCHANGED <<aborting, child, num_cancels, uncancel_calls,
                               on_completed_fut, errors, errors_released>>
           ELSE IF ~parent_cancel_requested
           THEN /\ pc' = "closed"
                /\ outcome' = Returned
                /\ propagate_cancellation_error' = prop
                /\ must_cancel' = must
                /\ UNCHANGED <<aborting, child, num_cancels, uncancel_calls,
                               on_completed_fut, errors, errors_released>>
           ELSE /\ num_cancels' = Uncancel(num_cancels)
                /\ uncancel_calls' = uncancel_calls + 1
                /\ aborting' = (aborting \/ origin # None)
                /\ child' = IF origin # None /\ ~aborting THEN Abort(tasks, child) ELSE child
                /\ WaitLoop(origin,
                            IF Uncancel(num_cancels) = 0 THEN None ELSE prop,
                            must)
    /\ UNCHANGED <<entered, parent_task, parent_cancel_requested, tasks, base_error,
                   parent_done, reported, owner_cancel_calls, ext_cancels,
                   drain_cancels>>

\* the owner is resumed by the result of on_completed_fut (lines 112, 126)
WaitCompleted ==
    /\ pc = "wait"
    /\ on_completed_fut = "done"
    /\ ~must_cancel
    /\ WaitLoop(et, propagate_cancellation_error, FALSE)
    /\ last_call' = NoCall
    /\ UNCHANGED <<entered, exiting, aborting, parent_task, parent_cancel_requested,
                   tasks, base_error, et, num_cancels, parent_done, child, reported,
                   uncancel_calls, owner_cancel_calls, ext_cancels, drain_cancels>>

\* the owner is resumed by a CancelledError at line 112 (lines 113-126)
WaitInterrupted ==
    /\ pc = "wait"
    /\ on_completed_fut = "cancelled" \/ must_cancel
    /\ aborting' = TRUE
    /\ child' = IF ~aborting THEN Abort(tasks, child) ELSE child
    /\ WaitLoop(et,
                IF ~aborting THEN Cancelled ELSE propagate_cancellation_error,
                FALSE)
    /\ last_call' = NoCall
    /\ UNCHANGED <<entered, exiting, parent_task, parent_cancel_requested, tasks,
                   base_error, et, num_cancels, parent_done, reported,
                   uncancel_calls, owner_cancel_calls, ext_cancels, drain_cancels>>

\* somebody else calls cancel() on the owner task
ExternalCancel ==
    /\ pc \in {"body", "wait"}
    /\ ext_cancels < MaxExtCancels
    /\ ext_cancels' = ext_cancels + 1
    /\ drain_cancels' = IF pc = "wait" THEN drain_cancels + 1 ELSE drain_cancels
    /\ num_cancels' = num_cancels + 1
    /\ on_completed_fut' = CancelledFut(on_completed_fut)
    /\ must_cancel' = CancelledMust(on_completed_fut)
    /\ last_call' = NoCall
    /\ UNCHANGED <<entered, exiting, aborting, parent_task, parent_cancel_requested,
                   tasks, errors, errors_released, base_error, et,
                   propagate_cancellation_error, pc, outcome, parent_done, child,
                   reported, uncancel_calls, owner_cancel_calls>>

\* the owner task itself finishes some time after the scope has closed
OwnerFinish ==
    /\ pc = "closed"
    /\ ~parent_done
    /\ parent_done' = TRUE
    /\ last_call' = NoCall
    /\ UNCHANGED <<entered, exiting, aborting, parent_task, parent_cancel_requested,
                   tasks, errors, errors_released, base_error, on_completed_fut, et,
                   propagate_cancellation_error, pc, outcome, num_cancels, must_cancel,
                   child, reported, uncancel_calls, owner_cancel_calls, ext_cancels,
                   drain_cancels>>

Next ==
    \/ \E cur \in {None, "owner"} : Enter(cur)
    \/ \E c \in Children, eager \in {None, "ok"} \cup ChildErrors : CreateTask(c, eager)
    \/ \E c \in Children, res \in {"ok", Cancelled} \cup ChildErrors : ChildFinish(c, res)
    \/ \E c \in Children : ChildCallback(c)
    \/ BodyCatchCancel
    \/ \E origin \in {None, Cancelled} \cup BodyErrors : BodyEnd(origin)
    \/ WaitCompleted
    \/ WaitInterrupted
    \/ ExternalCancel
    \/ OwnerFinish

Spec == Init /\ [][Next]_vars

\* The event loop runs every callback and wake-up it has scheduled, and every
\* child reaches a terminal state.
Fairness ==
    /\ \A c \in Children : WF_vars(\E res \in {"ok", Cancelled} \cup ChildErrors : ChildFinish(c, res))
    /\ \A c \in Children : WF_vars(ChildCallback(c))
    /\ WF_vars(WaitCompleted)
    /\ WF_vars(WaitInterrupted)

FairSpec == Init /\ [][Next]_vars /\ Fairness

\* ------------------------------------------------------ claim formulas
\* the step in which __aexit__ returns to, or raises into, the owner
Delivers == pc # "closed" /\ pc' = "closed"

FailedChildren == {c \in Children : child[c].res \in ChildErrors}

FirstSevere(es) ==
    es[CHOOSE i \in 1..Len(es) :
        /\ es[i] \in SevereErrors
        /\ \A j \in 1..(i - 1) : es[j] \notin SevereErrors]

\* C1: when close-scope delivers its outcome, whichever way the body ended,
\* the live set is empty and no registered child is still running.
C1_DeliversOnlyWhenDrained ==
    [][Delivers => (tasks' = {} /\ \A c \in Children : child'[c].st # "running")]_vars

\* C2: if the body ends normally, no child has failed or been cancelled and the
\* owner was never cancelled, close-scope returns normally, and only once every
\* registered child has completed and the live set is empty.
C2_NormalReturnAfterAllChildren ==
    [][(/\ Delivers
        /\ et' = None
        /\ ext_cancels = 0
        /\ owner_cancel_calls = 0
        /\ \A c \in Children : child[c].res \in {None, "ok"} /\ child[c].cancels = 0)
       => (/\ outcome' = Returned
           /\ tasks' = {}
           /\ \A c \in Children : child'[c].st # "running")]_vars

\* C3: if exactly one child has failed, with an ordinary error E, no severe
\* error is recorded and the body did not fail with an error of its own, the
\* outcome is the composite error with cause list exactly [E].
C3_SingleFailureIsGroupOfOne ==
    [][(/\ Delivers
        /\ Cardinality(FailedChildren) = 1
        /\ Len(errors) = 1
        /\ errors[1] \in OrdinaryErrors
        /\ base_error = None
        /\ et' \notin BodyErrors)
       => outcome' = Group(errors)]_vars

\* C4: if the owner was cancelled from outside, the cancellation reached the
\* scope (the body ended cancelled, or the wait in close was interrupted) and
\* no error is recorded, then at delivery every child has finished, none is
\* left in the live set without a cancellation request, and the outcome is
\* the cancellation.
C4_CancelledOwnerDrainsThenPropagates ==
    [][(/\ Delivers
        /\ ext_cancels > 0
        /\ owner_cancel_calls = 0
        /\ et' = Cancelled \/ drain_cancels > 0
        /\ errors = <<>>
        /\ base_error = None)
       => (/\ outcome' = Raised(Cancelled)
           /\ \A c \in tasks' : child'[c].cancels > 0
           /\ tasks' = {}
           /\ \A c \in Children : child'[c].st # "running")]_vars

\* C5: if a severe child error is recorded together with ordinary child errors,
\* the outcome is exactly the first severe error recorded, bare.
C5_SevereErrorWins ==
    [][(/\ Delivers
        /\ \E i \in 1..Len(errors) : errors[i] \in SevereErrors
        /\ \E i \in 1..Len(errors) : errors[i] \in OrdinaryErrors)
       => outcome' = Raised(FirstSevere(errors))]_vars

\* C6: if two or more children failed with ordinary errors (no severe error, no
\* body error), the outcome is the composite error whose cause list is the
\* recorded failures in the order of their completion callbacks.
C6_GroupKeepsCompletionOrder ==
    [][(/\ Delivers
        /\ Len(errors) >= 2
        /\ \A i \in 1..Len(errors) : errors[i] \in OrdinaryErrors
        /\ base_error = None
        /\ et' \notin BodyErrors)
       => outcome' = Group(errors)]_vars

\* C7: if the body fails with a non-cancellation error X and no severe error is
\* recorded, the outcome is the composite error of the recorded child errors
\* followed by X; X is never delivered bare.
C7_BodyErrorIsFolded ==
    [][(/\ Delivers
        /\ et' \in BodyErrors
        /\ base_error = None)
       => outcome' = Group(Append(errors, et'))]_vars

C9_UncancelExactlyOnceIfRequested ==
    [][Delivers =>
        uncancel_calls' = IF parent_cancel_requested THEN 1 ELSE 0]_vars

\* C10: while the owner waits in close, no interruption ends the wait while
\* the live set is non-empty and none calls uncancel() again; when a scope
\* that was cancelled twice or more while draining delivers its outcome, the
\* live set is empty and the owner's outstanding-cancellation count is the
\* number of cancel() calls it received minus exactly one.
C10_DrainSurvivesRepeatedCancel ==
    [][pc = "wait" =>
        /\ tasks' # {} => pc' = "wait"
        /\ uncancel_calls' = uncancel_calls
        /\ num_cancels' >= num_cancels
        /\ (pc' = "closed" /\ drain_cancels >= 2) =>
              /\ tasks' = {}
              /\ uncancel_calls' = 1
              /\ num_cancels' = ext_cancels' + owner_cancel_calls' - 1
              /\ num_cancels' >= 0
      ]_vars

C10_Witness ==
    /\ pc = "closed"
    /\ drain_cancels >= 2
    /\ uncancel_calls = 1
    /\ tasks = {}
    /\ outcome.kind = "group"

\* C11: a child that is already done when create_task spawns it is never put
\* in the live set; when create_task returns its callback has run: a failure
\* is appended to the error list, a severe one sets the severe marker if none
\* is set, and, the owner being unfinished, the scope aborts, cancels every
\* running member of the live set and cancels its owner once, as for a child
\* failing later.
C11_EagerChildRoutedThroughCallback ==
    [][\A c \in Children :
        (/\ last_call'.op = "create_task"
         /\ child[c].st = "unspawned"
         /\ child'[c].st \in {"done", "notified"})
        => /\ child'[c].st = "notified"
           /\ tasks' = tasks
           /\ c \notin tasks'
           /\ child'[c].res = "ok" =>
                UNCHANGED <<errors, base_error, aborting, parent_cancel_requested,
                            owner_cancel_calls, num_cancels, reported>>
           /\ child'[c].res \in ChildErrors =>
                /\ errors' = Append(errors, child'[c].res)
                /\ base_error' = IF base_error = None /\ child'[c].res \in SevereErrors
                                 THEN child'[c].res ELSE base_error
                /\ (parent_task # None /\ ~parent_done) =>
                      /\ aborting'
                      /\ parent_cancel_requested'
                      /\ owner_cancel_calls' = owner_cancel_calls + 1
                      /\ num_cancels' = num_cancels + 1
                      /\ \A d \in tasks : child[d].st = "running" =>
                            child'[d].cancels = child[d].cancels + 1
      ]_vars

C11_Witness ==
    /\ last_call = Call("create_task", "ok")
    /\ aborting
    /\ base_error \in SevereErrors
    /\ \E d \in tasks : child[d].cancels > 0
    /\ \E c \in Children : c \notin tasks /\ child[c].st = "notified"
                           /\ child[c].res \in SevereErrors

\* the errors the delivered outcome carries
OutcomeErrors ==
    IF outcome.kind = "group" THEN {outcome.causes[i] : i \in 1..Len(outcome.causes)}
    ELSE IF outcome.kind = "error" THEN {outcome.err}
    ELSE {}

ReportedErrors == {reported[i] : i \in 1..Len(reported)}

C12_SevereDiscardsOrdinary ==
    /\ pc = "closed"
    /\ outcome.kind = "error"
    /\ outcome.err \in SevereErrors
    /\ \E c \in Children : child[c].st = "notified" /\ child[c].res \in OrdinaryErrors

\* C13: when the body ends cancelled or with an error and the scope is not
\* yet aborting, the close step makes it aborting and requests cancellation of
\* every running member of the live set; if it is already aborting, the step
\* sends no child a further cancellation request.
C13_CloseAbortsOnFailedBody ==
    [][(pc = "body" /\ pc' # "body" /\ et' # None) =>
        IF ~aborting
        THEN /\ aborting'
             /\ \A c \in tasks : child[c].st = "running" =>
                    child'[c].cancels = child[c].cancels + 1
        ELSE \A c \in Children : child'[c].cancels = child[c].cancels
      ]_vars

\* C14 as stated: whenever the scope is aborting, every member of the live
\* set, finished or not, has had cancellation requested, and no child is added
\* to the live set while aborting.
C14_AbortingImpliesAllLiveCancelled ==
    [][/\ aborting' => \A c \in tasks' : child'[c].cancels > 0
       /\ aborting => tasks' \subseteq tasks
      ]_vars

\* C14, amended: the step that makes the scope aborting requests cancellation
\* of every member of the live set that is still running and of none that has
\* already finished; so whenever the scope is aborting, every member of the
\* live set has had cancellation requested or had finished (its callback still
\* due); no child is added to the live set while aborting.
C14_AbortingImpliesRunningLiveCancelled ==
    [][/\ (~aborting /\ aborting') =>
            \A c \in tasks' :
                /\ child[c].st = "running" => child'[c].cancels = child[c].cancels + 1
                /\ child[c].st = "done" => child'[c].cancels = child[c].cancels
       /\ aborting' => \A c \in tasks' : child'[c].cancels > 0 \/ child'[c].st = "done"
       /\ aborting => tasks' \subseteq tasks
      ]_vars

C14_Witness ==
    /\ aborting
    /\ \E c \in tasks : child[c].st = "done" /\ child[c].cancels = 0

\* the step in which _on_task_done handles the failure of child c
HandlesFailure(c) ==
    /\ child[c].st \in {"unspawned", "done"}
    /\ child'[c].st = "notified"
    /\ child'[c].res \in ChildErrors

\* C15: when _on_task_done handles a child failure while the owner is
\* unfinished, the scope not aborting and owner cancellation not yet requested,
\* that one step makes the scope aborting, requests cancellation of every other
\* running member of the live set, sets parent_cancel_requested and calls
\* owner.cancel(); no other step calls owner.cancel(), and the scope calls it
\* at most once in its lifetime.
C15_FirstFailureAbortsAndCancelsOwnerOnce ==
    [][/\ \A c \in Children :
            (/\ HandlesFailure(c)
             /\ parent_task # None /\ ~parent_done
             /\ ~aborting /\ ~parent_cancel_requested)
            => /\ aborting'
               /\ parent_cancel_requested'
               /\ owner_cancel_calls' = owner_cancel_calls + 1
               /\ num_cancels' = num_cancels + 1
               /\ \A d \in tasks \ {c} : child[d].st = "running" =>
                      child'[d].cancels = child[d].cancels + 1
       /\ owner_cancel_calls' # owner_cancel_calls =>
            \E c \in Children :
                /\ HandlesFailure(c)
                /\ ~parent_done /\ ~aborting /\ ~parent_cancel_requested
       /\ owner_cancel_calls' <= 1
      ]_vars

C15_Witness ==
    /\ owner_cancel_calls = 1
    /\ aborting
    /\ parent_cancel_requested
    /\ \E d \in tasks : child[d].cancels = 1
    /\ Len(errors) >= 1

\* C16: if the body ended with a cancellation the owner got from outside and
\* ordinary child errors are recorded, no severe one, the outcome is the
\* composite error of the recorded errors; a cancellation is delivered only
\* when the error list is empty.
C16_ErrorsOutrankCancellation ==
    [][Delivers =>
        /\ (/\ ext_cancels > 0
            /\ et' = Cancelled
            /\ errors # <<>>
            /\ \A i \in 1..Len(errors) : errors[i] \in OrdinaryErrors
            /\ base_error = None)
           => outcome' = Group(errors)
        /\ outcome'.kind = "cancelled" => errors = <<>>
      ]_vars

C18_CloseEventuallyDeliversOnce ==
    /\ exiting ~> (pc = "closed")
    /\ [](pc = "wait" => on_completed_fut # None)
    /\ [](pc = "closed" => (on_completed_fut = None /\ outcome.kind # "none"))
    /\ [][pc = "closed" => (pc' = "closed" /\ outcome' = outcome)]_vars
    /\ [][(pc = "wait" /\ on_completed_fut \in {"pending", "cancelled"} /\ tasks # {})
            => pc' = "wait"]_vars

C18_Witness ==
    /\ pc = "closed"
    /\ drain_cancels >= 1
    /\ on_completed_fut = None
    /\ outcome.kind # "none"

\* C19: a create_task made while the scope is exiting, its live set non-empty
\* and the scope not aborting is accepted, and it is made before close-scope
\* has delivered its outcome, which therefore waits for the late child too.
C19_LateRegistrationIsDrained ==
    [][(/\ last_call'.op = "create_task"
        /\ entered /\ exiting /\ tasks # {} /\ ~aborting)
       => /\ last_call'.res = "ok"
          /\ pc # "closed"
          /\ outcome.kind = "none"
      ]_vars

\* C20: once close-scope has delivered its outcome no completion callback of
\* the scope runs, and the scope's flags, live set, error list and severe
\* marker, the number of its owner.cancel() calls and every child's
\* cancellation requests stay as they are.
C20_NothingAfterDelivery ==
    [][pc = "closed" =>
        /\ UNCHANGED <<entered, exiting, aborting, parent_cancel_requested, tasks,
                       errors, errors_released, base_error, owner_cancel_calls>>
        /\ \A c \in Children :
              /\ child'[c].cancels = child[c].cancels
              /\ ~(child[c].st = "done" /\ child'[c].st = "notified")
      ]_vars

====
